---- MODULE Spec2Model ----
(***************************************************************************)
(* simple-redis: the RESP frame codec (bulk string, array) and the command *)
(* layer (echo, sadd, sismember) as a state machine over one connection    *)
(* buffer.  A byte is a one-character string; a byte string is a sequence  *)
(* of bytes.  Offsets keep the source's 0-based convention: `end` is the   *)
(* 0-based index of the header's "\r".                                     *)
(***************************************************************************)
EXTENDS Integers, Sequences, FiniteSets, TLC

VARIABLES
    src,      \* the frame the peer sent (explicit null tags), or NoSrc
    tail,     \* the bytes the peer sent after that frame
    rest,     \* bytes of the stream the transport has not delivered yet
    buf,      \* the connection's BytesMut
    api,      \* the decode last called: "none", "BulkString", "RespArray"
    pre,      \* contents of buf when that decode was called
    res,      \* what that decode returned
    need,     \* what expect_length returned on the buffer now held, or NoNeed
    frame,    \* the RespFrame value the program holds, or NoFrame
    origin,   \* how it came by that value: "none", "built", "decoded", "reply"
    out,      \* bytes produced by the last encode, or NoBytes
    cmd,      \* the command (or CommandError) last constructed, or NoCmd
    backend,  \* the Backend: (key, field) |-> stored frame
    added,    \* history: (key, payload) of every bulk-string member of an executed SAdd
    pos,      \* members the SAdd now executing has gone through (its loop index)
    seen      \* replies of the Sismember commands other connections executed meanwhile

vars == <<src, tail, rest, buf, api, pre, res, need, frame, origin, out, cmd, backend,
          added, pos, seen>>

(***************************************************************************)
(* Bounds of the model.                                                    *)
(***************************************************************************)
\* longest payload of a bulk string sent on its own
MaxPayload == 1
\* most frames (the array itself and everything nested in it) of a sent array
MaxNodes == 3
\* most elements that follow the first element of a request
MaxArgs == 3
\* most Sismember replies other connections collect while one SAdd executes
MaxSeen == 2

(***************************************************************************)
(* Bytes and byte-string helpers.                                          *)
(***************************************************************************)
CR == "\r"
LF == "\n"
CRLF == <<CR, LF>>
CRLF_LEN == Len(CRLF)
NULL_BULK_STRING == <<"$", "-", "1", CR, LF>>
NULL_ARRAY == <<"*", "-", "1", CR, LF>>

DigitChars == <<"0", "1", "2", "3", "4", "5", "6", "7", "8", "9">>

\* &b[n..] clamped to the end of b
Drop(b, n) == IF n >= Len(b) THEN <<>> ELSE SubSeq(b, n + 1, Len(b))
\* &b[..n] clamped to the end of b
Take(b, n) == IF n >= Len(b) THEN b ELSE SubSeq(b, 1, n)

\* slice::starts_with
starts_with(b, p) == Len(b) >= Len(p) /\ SubSeq(b, 1, Len(p)) = p

\* u8::to_ascii_lowercase over the letters the model sends
to_ascii_lowercase(c) ==
    CASE c = "A" -> "a"
      [] c = "E" -> "e"
      [] c = "C" -> "c"
      [] c = "H" -> "h"
      [] c = "O" -> "o"
      [] OTHER -> c

\* <[u8]>::eq_ignore_ascii_case
eq_ignore_ascii_case(a, b) ==
    /\ Len(a) = Len(b)
    /\ \A i \in 1..Len(a) : to_ascii_lowercase(a[i]) = to_ascii_lowercase(b[i])

\* format!("{}", n) for n >= 0
RECURSIVE Dec(_)
Dec(n) == IF n < 10 THEN <<DigitChars[n + 1]>>
          ELSE Dec(n \div 10) \o <<DigitChars[(n % 10) + 1]>>

DigitVal(c) == CHOOSE d \in 0..9 : DigitChars[d + 1] = c
IsDigit(c) == \E d \in 0..9 : DigitChars[d + 1] = c

RECURSIVE DigitsVal(_)
DigitsVal(s) == IF s = <<>> THEN 0
                ELSE 10 * DigitsVal(SubSeq(s, 1, Len(s) - 1)) + DigitVal(s[Len(s)])

\* str::parse of a signed decimal: [ok, val]
ParseInt(s) ==
    LET neg == s # <<>> /\ s[1] = "-"
        ds  == IF neg THEN Drop(s, 1) ELSE s
    IN  IF ds = <<>> \/ \E i \in 1..Len(ds) : ~IsDigit(ds[i])
        THEN [ok |-> FALSE, val |-> 0]
        ELSE [ok |-> TRUE, val |-> IF neg THEN 0 - DigitsVal(ds) ELSE DigitsVal(ds)]

(***************************************************************************)
(* Values.                                                                 *)
(***************************************************************************)
NoFrame == [type |-> "None"]
NoBytes == <<"(none)">>
NoSrc == [kind |-> "none"]

\* BulkString::new
BulkString_new(s) == [type |-> "BulkString", data |-> s]
\* RespArray::new
RespArray_new(s, is_null_flag) == [type |-> "Array", frames |-> s, null |-> is_null_flag]

Ok(v, b) == [ok |-> TRUE, val |-> v, err |-> "", buf |-> b]
Err(e, b) == [ok |-> FALSE, val |-> NoFrame, err |-> e, buf |-> b]
NoResult == [ok |-> FALSE, val |-> NoFrame, err |-> "(not called)", buf |-> <<>>]

(***************************************************************************)
(* Header/length parser (resp module helpers).                             *)
(***************************************************************************)
\* 0-based offset of the first "\r\n" in b, or -1
FindCRLF(b) ==
    LET hits == {i \in 1..(Len(b) - 1) : b[i] = CR /\ b[i + 1] = LF}
    IN  IF hits = {} THEN 0 - 1
        ELSE (CHOOSE i \in hits : \A j \in hits : i <= j) - 1

\* parse_length(buf, prefix) -> Result<(end, len)>
parse_length(b, prefix) ==
    IF b = <<>> \/ b[1] # prefix
    THEN [ok |-> FALSE, err |-> "InvalidFrameType", end |-> 0, len |-> 0]
    ELSE LET end == FindCRLF(b)
         IN  IF end < 0
             THEN [ok |-> FALSE, err |-> "InvalidFrameLength", end |-> 0, len |-> 0]
             ELSE LET p == ParseInt(SubSeq(b, 2, end))
                  IN  IF ~p.ok
                      THEN [ok |-> FALSE, err |-> "InvalidFrameLength", end |-> 0, len |-> 0]
                      ELSE [ok |-> TRUE, err |-> "", end |-> end, len |-> p.val]

(***************************************************************************)
(* Bulk string codec.                                                      *)
(***************************************************************************)
check_null_bulk_string(b) == starts_with(b, NULL_BULK_STRING)

\* BulkString::encode
BulkString_encode(self) ==
    IF eq_ignore_ascii_case(NULL_BULK_STRING, self.data)
    THEN <<"$">> \o <<"-", "1">> \o CRLF
    ELSE <<"$">> \o Dec(Len(self.data)) \o CRLF \o self.data \o CRLF

\* BulkString::decode with buf.advance(end + CRLF_LEN) moved above the check of
\* the remaining length
BulkString_decode_AdvanceFirst(b) ==
    IF check_null_bulk_string(b)
    THEN Ok(BulkString_new(NULL_BULK_STRING), b)
    ELSE LET r == parse_length(b, "$")
         IN  IF ~r.ok THEN Err(r.err, b)
             ELSE LET advanced == Drop(b, r.end + CRLF_LEN)
                  IN  IF Len(advanced) < r.len + CRLF_LEN
                      THEN Err("NotComplete", advanced)
                      ELSE Ok(BulkString_new(Take(advanced, r.len)),
                              Drop(advanced, r.len + CRLF_LEN))

\* BulkString::decode: the result and the buffer as the call leaves it
BulkString_decode(b) ==
    IF check_null_bulk_string(b)
    THEN Ok(BulkString_new(NULL_BULK_STRING), b)
    ELSE LET r == parse_length(b, "$")
         IN  IF ~r.ok THEN Err(r.err, b)
             ELSE LET remained == Drop(b, r.end + CRLF_LEN)
                  IN  IF Len(remained) < r.len + CRLF_LEN
                      THEN Err("NotComplete", b)
                      ELSE LET advanced == Drop(b, r.end + CRLF_LEN)
                               data == Take(advanced, r.len + CRLF_LEN)
                           IN  Ok(BulkString_new(Take(data, r.len)),
                                  Drop(advanced, r.len + CRLF_LEN))

\* BulkString::expect_length: [ok, err, val]
BulkString_expect_length(b) ==
    IF check_null_bulk_string(b)
    THEN [ok |-> TRUE, err |-> "", val |-> 4]
    ELSE LET r == parse_length(b, "$")
         IN  IF ~r.ok THEN [ok |-> FALSE, err |-> r.err, val |-> 0]
             ELSE [ok |-> TRUE, err |-> "", val |-> r.end + CRLF_LEN + r.len + CRLF_LEN]

(***************************************************************************)
(* Array codec and the dispatch by type byte.                              *)
(***************************************************************************)
check_null_array(b) == starts_with(b, NULL_ARRAY)

RECURSIVE RespFrame_encode(_)
RECURSIVE EncodeFrames(_)
RECURSIVE RespFrame_decode(_)
RECURSIVE DecodeFrames(_, _, _)
RECURSIVE RespFrame_expect_length(_)
RECURSIVE SumLengths(_, _, _)

\* the loop of RespArray::encode: each frame's encoding, in order
EncodeFrames(fs) ==
    IF fs = <<>> THEN <<>>
    ELSE RespFrame_encode(Head(fs)) \o EncodeFrames(Tail(fs))

\* RespArray::encode without the early return of the null branch
RespArray_encode_NoReturn(self) ==
    (IF self.null THEN NULL_ARRAY ELSE <<>>)
    \o <<"*">> \o Dec(Len(self.frames)) \o CRLF \o EncodeFrames(self.frames)

\* RespArray::encode
RespArray_encode(self) ==
    IF self.null THEN NULL_ARRAY
    ELSE <<"*">> \o Dec(Len(self.frames)) \o CRLF \o EncodeFrames(self.frames)

\* RespFrame::encode
RespFrame_encode(f) ==
    IF f.type = "BulkString" THEN BulkString_encode(f) ELSE RespArray_encode(f)

\* the loop of calc_total_length: n more frames expected in data
SumLengths(data, n, total) ==
    IF n <= 0 THEN [ok |-> TRUE, err |-> "", val |-> total]
    ELSE LET l == RespFrame_expect_length(data)
         IN  IF ~l.ok THEN l
             ELSE SumLengths(Drop(data, l.val), n - 1, total + l.val)

\* calc_total_length(buf, end, len, "*")
calc_total_length(b, end, len) ==
    SumLengths(Drop(b, end + CRLF_LEN), len, end + CRLF_LEN)

\* RespArray::expect_length
RespArray_expect_length(b) ==
    IF check_null_array(b)
    THEN [ok |-> TRUE, err |-> "", val |-> 4]
    ELSE LET r == parse_length(b, "*")
         IN  IF ~r.ok THEN [ok |-> FALSE, err |-> r.err, val |-> 0]
             ELSE calc_total_length(b, r.end, r.len)

\* RespFrame::expect_length
RespFrame_expect_length(b) ==
    IF b = <<>> THEN [ok |-> FALSE, err |-> "NotComplete", val |-> 0]
    ELSE IF b[1] = "$" THEN BulkString_expect_length(b)
    ELSE IF b[1] = "*" THEN RespArray_expect_length(b)
    ELSE [ok |-> FALSE, err |-> "InvalidFrameType", val |-> 0]

\* the loop of RespArray::decode: n more frames, each by RespFrame::decode(buf)?
DecodeFrames(b, n, frames) ==
    IF n <= 0 THEN Ok(RespArray_new(frames, FALSE), b)
    ELSE LET r == RespFrame_decode(b)
         IN  IF ~r.ok THEN r
             ELSE DecodeFrames(r.buf, n - 1, Append(frames, r.val))

\* RespArray::decode: the result and the buffer as the call leaves it
RespArray_decode(b) ==
    IF check_null_array(b)
    THEN Ok(RespArray_new(<<BulkString_new(<<"-", "1", CR, LF>>)>>, TRUE), b)
    ELSE LET r == parse_length(b, "*")
         IN  IF ~r.ok THEN Err(r.err, b)
             ELSE LET t == calc_total_length(b, r.end, r.len)
                  IN  IF ~t.ok THEN Err(t.err, b)
                      ELSE IF Len(b) < t.val THEN Err("NotComplete", b)
                      ELSE DecodeFrames(Drop(b, r.end + CRLF_LEN), r.len, <<>>)

\* RespFrame::decode
RespFrame_decode(b) ==
    IF b = <<>> THEN Err("NotComplete", b)
    ELSE IF b[1] = "$" THEN BulkString_decode(b)
    ELSE IF b[1] = "*" THEN RespArray_decode(b)
    ELSE Err("InvalidFrameType", b)

(***************************************************************************)
(* Command layer.                                                          *)
(***************************************************************************)
NoCmd == [type |-> "None"]
CommandError(e) == [type |-> "Error", err |-> e]

\* a byte that is not valid UTF-8 on its own
BadByte == "0xFF"

\* String::from_utf8: [ok, val]
from_utf8(b) == [ok |-> \A i \in 1..Len(b) : b[i] # BadByte, val |-> b]

\* the lowercase text of a bulk string
lowercase(b) == [i \in 1..Len(b) |-> to_ascii_lowercase(b[i])]

\* validate_command(value, names, n_args): "" when the array passes
validate_command(value, names, n_args) ==
    IF \/ value.frames = <<>>
       \/ value.frames[1].type # "BulkString"
       \/ lowercase(value.frames[1].data) \notin names
    THEN "WrongCommand"
    ELSE IF Len(value.frames) - 1 < n_args THEN "WrongNumberOfArguments"
    ELSE ""

\* extract_args(value, start): the elements after the first `start`
extract_args(value, start) == Drop(value.frames, start)

\* Echo::try_from(RespArray)
Echo_try_from(value) ==
    LET v == validate_command(value, {<<"e", "c", "h", "o">>}, 1)
    IN  IF v # "" THEN CommandError(v)
        ELSE LET args == extract_args(value, 1)
             IN  IF args # <<>> /\ args[1].type = "BulkString"
                 THEN LET t == from_utf8(args[1].data)
                      IN  IF t.ok THEN [type |-> "Echo", msg |-> t.val]
                          ELSE CommandError("InvalidArgument")
                 ELSE CommandError("InvalidArgument")

\* Echo::execute: the reply and the backend after it
Echo_execute(self, b) ==
    [reply |-> BulkString_new(self.msg), backend |-> b]

\* the outcome of a conversion that panicked: the thread of the connection
\* unwinds and no value is returned
Panic == [type |-> "Panic"]

\* RESP_OK: the fixed success reply
RESP_OK == [type |-> "SimpleString", data |-> <<"O", "K">>]

\* Backend::hset(key, field, value): one atomic insert
hset(b, key, field, value) ==
    [p \in DOMAIN b \cup {<<key, field>>} |-> IF p = <<key, field>> THEN value ELSE b[p]]

\* Backend::hget(key, field): the stored frame, or NoFrame for None
hget(b, key, field) == IF <<key, field>> \in DOMAIN b THEN b[<<key, field>>] ELSE NoFrame

\* SAdd::try_from(RespArray): no validate_command; `?` on the key's text
\* returns first, then the member check, then key.unwrap()
SAdd_try_from(value) ==
    LET args == extract_args(value, 1)
        bulk_key == args # <<>> /\ args[1].type = "BulkString"
        fields == Drop(args, 1)
    IN  IF bulk_key /\ ~from_utf8(args[1].data).ok THEN CommandError("InvalidArgument")
        ELSE IF fields = <<>> THEN CommandError("InvalidArgument")
        ELSE IF ~bulk_key THEN Panic
        ELSE [type |-> "SAdd", key |-> args[1].data, members |-> fields]

\* Sismember::try_from(RespArray)
Sismember_try_from(value) ==
    LET v == validate_command(value, {<<"s", "i", "s", "m", "e", "m", "b", "e", "r">>}, 2)
    IN  IF v # "" THEN CommandError(v)
        ELSE LET args == extract_args(value, 1)
             IN  IF Len(args) >= 2 /\ args[1].type = "BulkString" /\ args[2].type = "BulkString"
                 THEN IF from_utf8(args[1].data).ok /\ from_utf8(args[2].data).ok
                      THEN [type |-> "Sismember", key |-> args[1].data, value |-> args[2].data]
                      ELSE CommandError("InvalidArgument")
                 ELSE CommandError("InvalidArgument")

\* the loop body inserting under the key's own text instead of the member's
SAdd_member_KeyAsField(b, key, v) ==
    IF v.type = "BulkString" /\ from_utf8(v.data).ok
    THEN hset(b, key, key, v)
    ELSE b

\* the body of the loop of SAdd::execute, for one member v
SAdd_member(b, key, v) ==
    IF v.type = "BulkString" /\ from_utf8(v.data).ok
    THEN hset(b, key, v.data, v)
    ELSE b

RECURSIVE SAdd_loop(_, _, _)
\* for v in self.members.iter() { ... }
SAdd_loop(b, key, members) ==
    IF members = <<>> THEN b
    ELSE SAdd_loop(SAdd_member(b, key, Head(members)), key, Tail(members))

RECURSIVE SAdd_loop_Break(_, _, _)
\* the loop leaving at the first member it cannot insert
SAdd_loop_Break(b, key, members) ==
    IF members = <<>> THEN b
    ELSE IF Head(members).type = "BulkString" /\ from_utf8(Head(members).data).ok
         THEN SAdd_loop_Break(SAdd_member(b, key, Head(members)), key, Tail(members))
         ELSE b

\* SAdd::execute that stops at the first member that is not a bulk string of text
SAdd_execute_StopAtSkipped(self, b) ==
    [reply |-> RESP_OK, backend |-> SAdd_loop_Break(b, self.key, self.members)]

RECURSIVE SAdd_loop_Swapped(_, _, _)
\* the loop calling hset(member text, key, member)
SAdd_loop_Swapped(b, key, members) ==
    IF members = <<>> THEN b
    ELSE LET v == Head(members)
         IN  SAdd_loop_Swapped(IF v.type = "BulkString" /\ from_utf8(v.data).ok
                               THEN hset(b, v.data, key, v)
                               ELSE b,
                               key, Tail(members))

\* SAdd::execute with key and field exchanged in the insert
SAdd_execute_SwappedInsert(self, b) ==
    [reply |-> RESP_OK, backend |-> SAdd_loop_Swapped(b, self.key, self.members)]

\* SAdd::execute that first clears what the key held: the set is overwritten
SAdd_execute_Overwrite(self, b) ==
    [reply |-> RESP_OK,
     backend |-> SAdd_loop([p \in {q \in DOMAIN b : q[1] # self.key} |-> b[p]],
                           self.key, self.members)]

\* SAdd::execute: the reply and the backend after it
SAdd_execute(self, b) ==
    [reply |-> RESP_OK, backend |-> SAdd_loop(b, self.key, self.members)]

\* Sismember::execute looking up (value, key) instead of (key, value)
Sismember_execute_SwappedLookup(self, b) ==
    [reply |-> IF hget(b, self.value, self.key) # NoFrame
               THEN BulkString_new(<<"1">>)
               ELSE BulkString_new(<<"0">>),
     backend |-> b]

\* Sismember::execute: the reply and the backend after it
Sismember_execute(self, b) ==
    [reply |-> IF hget(b, self.key, self.value) # NoFrame
               THEN BulkString_new(<<"1">>)
               ELSE BulkString_new(<<"0">>),
     backend |-> b]

(***************************************************************************)
(* What the peer sends: frames with explicit null tags, and their wire     *)
(* form.                                                                   *)
(***************************************************************************)
NullBulk == [kind |-> "nullbulk"]
Bulk(p) == [kind |-> "bulk", data |-> p]
NullArr == [kind |-> "nullarray"]
Arr(items) == [kind |-> "array", items |-> items]

RECURSIVE Wire(_)
RECURSIVE WireAll(_)
WireAll(fs) == IF fs = <<>> THEN <<>> ELSE Wire(Head(fs)) \o WireAll(Tail(fs))

\* the wire format table: the one encoding of each frame
Wire(f) ==
    CASE f.kind = "nullbulk" -> <<"$", "-", "1", CR, LF>>
      [] f.kind = "bulk" -> <<"$">> \o Dec(Len(f.data)) \o CRLF \o f.data \o CRLF
      [] f.kind = "nullarray" -> <<"*", "-", "1", CR, LF>>
      [] f.kind = "array" -> <<"*">> \o Dec(Len(f.items)) \o CRLF \o WireAll(f.items)
      [] OTHER -> <<>>

(***************************************************************************)
(* The frames the model sends.                                             *)
(***************************************************************************)
PayloadBytes == {"a", CR}

RECURSIVE SeqsUpTo(_, _)
\* every sequence over S of length at most n
SeqsUpTo(S, n) ==
    IF n = 0 THEN {<<>>}
    ELSE LET shorter == SeqsUpTo(S, n - 1)
         IN  shorter \cup {Append(s, x) : s \in shorter, x \in S}

\* payloads of a bulk string sent on its own: the short ones and the two that
\* spell a null header
Payloads == SeqsUpTo(PayloadBytes, MaxPayload) \cup {NULL_BULK_STRING, NULL_ARRAY}

SentBulks == {NullBulk} \cup {Bulk(p) : p \in Payloads}

\* the frames of one node an array may hold
Leaves == {NullBulk, Bulk(<<"a">>), NullArr, Arr(<<>>)}

RECURSIVE Sized(_)
RECURSIVE SeqsOfSize(_)
\* sequences of frames of m nodes in all
SeqsOfSize(m) ==
    IF m = 0 THEN {<<>>}
    ELSE UNION {{<<f>> \o s : f \in Sized(k), s \in SeqsOfSize(m - k)} : k \in 1..m}
\* frames an array may hold, of exactly k nodes
Sized(k) == IF k = 1 THEN Leaves ELSE {Arr(s) : s \in SeqsOfSize(k - 1)}

SentArrays == {NullArr} \cup {Arr(s) : s \in UNION {SeqsOfSize(m) : m \in 0..(MaxNodes - 1)}}

\* echo requests: the command name in either case, every payload as message
EchoRequests ==
    {Arr(<<Bulk(n), Bulk(m)>>) : n \in {<<"e", "c", "h", "o">>, <<"E", "C", "H", "O">>},
                                 m \in Payloads}

SentFrames == SentBulks \cup SentArrays \cup EchoRequests

Tails == {<<>>, Wire(Bulk(<<"b">>))}

\* what earlier connections may have left in the backend
EmptyBackend == [p \in {} |-> NoFrame]
Backends == {EmptyBackend, [p \in {<<<<"s">>, <<"a">>>>} |-> BulkString_new(<<"a">>)]}

\* the decode that reads a frame of this kind
ApiOf(f) == IF f.kind \in {"nullbulk", "bulk"} THEN "BulkString" ELSE "RespArray"

(***************************************************************************)
(* The values the program builds itself, for encode.                       *)
(***************************************************************************)
RECURSIVE ToValue(_)
\* the value this program holds for a frame
ToValue(f) ==
    CASE f.kind = "nullbulk" -> BulkString_new(NULL_BULK_STRING)
      [] f.kind = "bulk" -> BulkString_new(f.data)
      [] f.kind = "nullarray" -> RespArray_new(<<BulkString_new(<<"-", "1", CR, LF>>)>>, TRUE)
      [] OTHER -> RespArray_new([i \in 1..Len(f.items) |-> ToValue(f.items[i])], FALSE)

\* the values the program may build for frame f: ToValue(f), and for an array
\* the same elements under the null flag (RespArray::new(elements, true))
BuiltFor(f) ==
    {ToValue(f)} \cup
    (IF f.kind = "array" THEN {RespArray_new(ToValue(f).frames, TRUE)} ELSE {})

(***************************************************************************)
(* The state machine.                                                      *)
(***************************************************************************)
NoNeed == [api |-> "none", on |-> <<>>, ok |-> FALSE, err |-> "", val |-> 0]
Called(r) == [ok |-> r.ok, val |-> r.val, err |-> r.err]

Init ==
    /\ \/ /\ src \in SentFrames
          /\ tail \in Tails
          /\ rest = Wire(src) \o tail
          /\ frame = NoFrame
          /\ origin = "none"
       \/ /\ src \in SentBulks \cup SentArrays
          /\ tail = <<>>
          /\ rest = <<>>
          /\ frame \in BuiltFor(src)
          /\ origin = "built"
    /\ buf = <<>>
    /\ api = "none"
    /\ pre = <<>>
    /\ res = Called(NoResult)
    /\ need = NoNeed
    /\ out = NoBytes
    /\ cmd = NoCmd
    /\ backend \in Backends
    /\ added = {}
    /\ pos = 0
    /\ seen = <<>>

\* the transport appends the next k bytes of the stream to the buffer
Feed(k) ==
    /\ k \in 1..Len(rest)
    /\ buf' = buf \o Take(rest, k)
    /\ rest' = Drop(rest, k)
    /\ api' = "none"
    /\ pre' = <<>>
    /\ res' = Called(NoResult)
    /\ need' = NoNeed
    /\ UNCHANGED <<src, tail, frame, origin, out, cmd, backend, added, pos, seen>>

\* BulkString::expect_length(&buf) before decoding
ExpectLengthBulk ==
    /\ api = "none"
    /\ need = NoNeed
    /\ LET r == BulkString_expect_length(buf)
       IN  need' = [api |-> "BulkString", on |-> buf, ok |-> r.ok, err |-> r.err, val |-> r.val]
    /\ UNCHANGED <<src, tail, rest, buf, api, pre, res, frame, origin, out, cmd, backend, added, pos, seen>>

\* RespArray::expect_length(&buf) before decoding
ExpectLengthArray ==
    /\ api = "none"
    /\ need = NoNeed
    /\ LET r == RespArray_expect_length(buf)
       IN  need' = [api |-> "RespArray", on |-> buf, ok |-> r.ok, err |-> r.err, val |-> r.val]
    /\ UNCHANGED <<src, tail, rest, buf, api, pre, res, frame, origin, out, cmd, backend, added, pos, seen>>

Decoded(name, r) ==
    /\ api' = name
    /\ pre' = buf
    /\ res' = Called(r)
    /\ buf' = r.buf
    /\ frame' = IF r.ok THEN r.val ELSE frame
    /\ origin' = IF r.ok THEN "decoded" ELSE origin
    /\ out' = NoBytes
    /\ UNCHANGED <<src, tail, rest, need, cmd, backend, added, pos, seen>>

\* BulkString::decode(&mut buf)
DecodeBulk == Decoded("BulkString", BulkString_decode(buf))

\* RespArray::decode(&mut buf)
DecodeArray == Decoded("RespArray", RespArray_decode(buf))

\* frame.encode()
Encode ==
    /\ frame # NoFrame
    /\ out' = RespFrame_encode(frame)
    /\ UNCHANGED <<src, tail, rest, buf, api, pre, res, need, frame, origin, cmd, backend, added, pos, seen>>

\* let cmd: Echo = frame.try_into(): the array is moved into the conversion
TryFromEcho ==
    /\ frame.type = "Array"
    /\ cmd' = Echo_try_from(frame)
    /\ frame' = NoFrame
    /\ origin' = "none"
    /\ out' = NoBytes
    /\ UNCHANGED <<src, tail, rest, buf, api, pre, res, need, backend, added, pos, seen>>

\* cmd.execute(&backend): the command is consumed, the reply is held
ExecuteEcho ==
    /\ cmd.type = "Echo"
    /\ LET r == Echo_execute(cmd, backend)
       IN  /\ frame' = r.reply
           /\ backend' = r.backend
    /\ origin' = "reply"
    /\ out' = NoBytes
    /\ cmd' = NoCmd
    /\ UNCHANGED <<src, tail, rest, buf, api, pre, res, need, added, pos, seen>>

Next ==
    \/ \E k \in 1..Len(rest) : Feed(k)
    \/ ExpectLengthBulk
    \/ ExpectLengthArray
    \/ DecodeBulk
    \/ DecodeArray
    \/ Encode
    \/ TryFromEcho
    \/ ExecuteEcho

Spec == Init /\ [][Next]_vars

(***************************************************************************)
(* The command layer on its own: requests arrive whole, each on a fresh    *)
(* buffer, and go through decode, construction and execution.  SpecCmd     *)
(* constructs from every request; SpecExec executes what well-formed       *)
(* requests construct, against one backend that starts empty.              *)
(***************************************************************************)
ECHO == <<"e", "c", "h", "o">>
SADD == <<"s", "a", "d", "d">>
SISMEMBER == <<"s", "i", "s", "m", "e", "m", "b", "e", "r">>

\* first elements of a request: the three names, one in upper case, and a frame
\* that is not a bulk string
CmdHeads == {Bulk(ECHO), Bulk(<<"E", "C", "H", "O">>), Bulk(SADD), Bulk(SISMEMBER), Arr(<<>>)}

\* the elements that may follow
CmdArgs == {Bulk(<<"s">>), Bulk(<<"a">>), Bulk(<<BadByte>>), NullBulk, Arr(<<>>)}

CmdRequests ==
    {Arr(<<>>)} \cup {Arr(<<h>> \o a) : h \in CmdHeads, a \in SeqsUpTo(CmdArgs, MaxArgs)}

ExecKeys == {<<"s">>, <<"a">>}
ExecTexts == {<<"a">>, <<"b">>}
ExecMembers == {Bulk(t) : t \in ExecTexts} \cup {Bulk(<<BadByte>>), Arr(<<>>)}

ExecRequests ==
    {Arr(<<Bulk(SADD), Bulk(k)>> \o ms) :
        k \in ExecKeys, ms \in SeqsUpTo(ExecMembers, MaxArgs - 1) \ {<<>>}}
    \cup {Arr(<<Bulk(SISMEMBER), Bulk(k), Bulk(m)>>) : k \in ExecKeys, m \in ExecTexts}
    \cup {Arr(<<Bulk(ECHO), Bulk(<<"a">>)>>)}

\* RespArray::decode on the bytes of each request, on a buffer holding nothing else
DecodedRequest == [f \in CmdRequests \cup ExecRequests |-> RespArray_decode(Wire(f))]

InitCmd ==
    /\ src = NoSrc
    /\ tail = <<>>
    /\ rest = <<>>
    /\ buf = <<>>
    /\ api = "none"
    /\ pre = <<>>
    /\ res = Called(NoResult)
    /\ need = NoNeed
    /\ frame = NoFrame
    /\ origin = "none"
    /\ out = NoBytes
    /\ cmd = NoCmd
    /\ backend = EmptyBackend
    /\ added = {}
    /\ pos = 0
    /\ seen = <<>>

\* the bytes of request f arrive on a fresh buffer and RespArray::decode reads
\* them; the reply of the request before is dropped.  A construction error
\* leaves the handler (frame.try_into()?), so nothing is received after one.
Receive(f) ==
    /\ cmd = NoCmd
    /\ frame = NoFrame \/ origin = "reply"
    /\ DecodedRequest[f].ok
    /\ frame' = DecodedRequest[f].val
    /\ src' = f
    /\ origin' = "decoded"
    /\ out' = NoBytes
    /\ UNCHANGED <<tail, rest, buf, api, pre, res, need, cmd, backend, added, pos, seen>>

\* let cmd: SAdd = frame.try_into()
TryFromSAdd ==
    /\ frame.type = "Array"
    /\ cmd' = SAdd_try_from(frame)
    /\ frame' = NoFrame
    /\ origin' = "none"
    /\ out' = NoBytes
    /\ UNCHANGED <<src, tail, rest, buf, api, pre, res, need, backend, added, pos, seen>>

\* let cmd: Sismember = frame.try_into()
TryFromSismember ==
    /\ frame.type = "Array"
    /\ cmd' = Sismember_try_from(frame)
    /\ frame' = NoFrame
    /\ origin' = "none"
    /\ out' = NoBytes
    /\ UNCHANGED <<src, tail, rest, buf, api, pre, res, need, backend, added, pos, seen>>

\* the (key, payload) pairs of the bulk-string members of an SAdd
BulkMembers(c) ==
    {<<c.key, c.members[i].data>> : i \in {j \in 1..Len(c.members) : c.members[j].type = "BulkString"}}

\* cmd.execute(&backend) with no other connection running
ExecuteSAdd ==
    /\ cmd.type = "SAdd"
    /\ pos = 0
    /\ LET r == SAdd_execute(cmd, backend)
       IN  /\ frame' = r.reply
           /\ backend' = r.backend
    /\ added' = added \cup BulkMembers(cmd)
    /\ seen' = <<>>
    /\ origin' = "reply"
    /\ out' = NoBytes
    /\ cmd' = NoCmd
    /\ UNCHANGED <<src, tail, rest, buf, api, pre, res, need, pos>>

\* a Sismember reply as seen records it: at is how far the SAdd executing at
\* that moment had gone, idle says none was executing
Asked(key, value, reply) ==
    [key |-> key, value |-> value, reply |-> reply, at |-> pos, idle |-> cmd.type # "SAdd"]

\* cmd.execute(&backend); seen keeps the last reply since the last write
ExecuteSismember ==
    /\ cmd.type = "Sismember"
    /\ LET r == Sismember_execute(cmd, backend)
       IN  /\ frame' = r.reply
           /\ backend' = r.backend
           /\ seen' = <<Asked(cmd.key, cmd.value, r.reply)>>
    /\ origin' = "reply"
    /\ out' = NoBytes
    /\ cmd' = NoCmd
    /\ UNCHANGED <<src, tail, rest, buf, api, pre, res, need, added, pos>>

NextCmd ==
    \/ \E f \in CmdRequests : Receive(f)
    \/ TryFromEcho
    \/ TryFromSAdd
    \/ TryFromSismember

SpecCmd == InitCmd /\ [][NextCmd]_vars

NextExec ==
    \/ \E f \in ExecRequests : Receive(f)
    \/ TryFromEcho
    \/ TryFromSAdd
    \/ TryFromSismember
    \/ ExecuteEcho
    \/ ExecuteSAdd
    \/ ExecuteSismember

SpecExec == InitCmd /\ [][NextExec]_vars

(***************************************************************************)
(* One SAdd executing member by member while other connections execute    *)
(* Sismember on the same backend.  Each hset and each hget is one atomic   *)
(* step; nothing orders them beyond the loop of the SAdd.                  *)
(***************************************************************************)
ConcRequests ==
    {Arr(<<Bulk(SADD), Bulk(k)>> \o ms) :
        k \in ExecKeys, ms \in SeqsUpTo(ExecMembers, MaxArgs - 1) \ {<<>>}}

InitConc ==
    /\ src \in ConcRequests
    /\ tail = <<>>
    /\ rest = <<>>
    /\ buf = <<>>
    /\ api = "none"
    /\ pre = <<>>
    /\ res = Called(NoResult)
    /\ need = NoNeed
    /\ frame = DecodedRequest[src].val
    /\ origin = "decoded"
    /\ out = NoBytes
    /\ cmd = NoCmd
    /\ backend = EmptyBackend
    /\ added = {}
    /\ pos = 0
    /\ seen = <<>>

\* one iteration of the loop of SAdd::execute
SAddStep ==
    /\ cmd.type = "SAdd"
    /\ pos < Len(cmd.members)
    /\ backend' = SAdd_member(backend, cmd.key, cmd.members[pos + 1])
    /\ pos' = pos + 1
    /\ added' = added \cup
                (IF cmd.members[pos + 1].type = "BulkString"
                 THEN {<<cmd.key, cmd.members[pos + 1].data>>} ELSE {})
    /\ UNCHANGED <<src, tail, rest, buf, api, pre, res, need, frame, origin, out, cmd, seen>>

\* the loop is over: SAdd::execute returns RESP_OK.clone()
SAddReturn ==
    /\ cmd.type = "SAdd"
    /\ pos = Len(cmd.members)
    /\ frame' = RESP_OK
    /\ origin' = "reply"
    /\ out' = NoBytes
    /\ cmd' = NoCmd
    /\ pos' = 0
    /\ UNCHANGED <<src, tail, rest, buf, api, pre, res, need, backend, added, seen>>

\* another connection executes Sismember{key of the SAdd, value m}
Observe(m) ==
    /\ cmd.type = "SAdd" \/ origin = "reply"
    /\ Len(seen) < MaxSeen
    /\ LET r == Sismember_execute([type |-> "Sismember", key |-> src.items[2].data, value |-> m],
                                  backend)
       IN  /\ seen' = Append(seen, Asked(src.items[2].data, m, r.reply))
           /\ backend' = r.backend
    /\ UNCHANGED <<src, tail, rest, buf, api, pre, res, need, frame, origin, out, cmd, added, pos>>

NextConc ==
    \/ TryFromSAdd
    \/ SAddStep
    \/ SAddReturn
    \/ \E m \in ExecTexts : Observe(m)

SpecConc == InitConc /\ [][NextConc]_vars

(***************************************************************************)
(* Properties of the codec.                                                *)
(***************************************************************************)
\* the last decode was the one for src's kind, called on a buffer that starts
\* with the whole wire form of src
AtFrame == api = ApiOf(src) /\ starts_with(pre, Wire(src))

\* the last decode was the one for src's kind, called on a non-empty proper
\* prefix of the wire form of src
AtProperPrefix ==
    /\ api = ApiOf(src)
    /\ pre # <<>>
    /\ Len(pre) < Len(Wire(src))
    /\ starts_with(Wire(src), pre)

\* what the decode named by the last call returns on buffer b
DecodeBy(name, b) == IF name = "BulkString" THEN BulkString_decode(b) ELSE RespArray_decode(b)

RECURSIVE ConcatAll(_)
\* the byte strings of a sequence, joined from the last one back
ConcatAll(ss) ==
    IF ss = <<>> THEN <<>>
    ELSE ConcatAll(SubSeq(ss, 1, Len(ss) - 1)) \o ss[Len(ss)]

\* C1: round trip: when the wire form of a bulk string (null, empty or with any
\* payload) or of an array (null, empty, holding bulk strings and nested
\* arrays) is decoded, encoding the decoded frame gives the same bytes back.
C1_RoundTrip ==
    (AtFrame /\ res.ok /\ origin = "decoded" /\ frame = res.val /\ out # NoBytes) =>
        out = Wire(src)

\* C2: a decode that returns NotComplete leaves the buffer exactly as it was,
\* so the same call on it returns NotComplete again, also for an array whose
\* header is complete and whose last element is cut short.
C2_NotCompleteKeepsBuffer ==
    (api # "none" /\ res.err = "NotComplete") =>
        (buf = pre /\ Called(DecodeBy(api, buf)) = res)

\* an array decode returned NotComplete on a buffer that holds the whole header
\* and a part of the last element
C2_Witness ==
    /\ AtProperPrefix
    /\ src.kind = "array"
    /\ Len(src.items) >= 1
    /\ parse_length(pre, "*").ok
    /\ Len(pre) > Len(Wire(src)) - Len(Wire(src.items[Len(src.items)]))
    /\ res.err = "NotComplete"
    /\ buf = pre

\* C3: progressive feed: every decode called while only a proper prefix of the
\* frame is in the buffer returns NotComplete, and the call made once all the
\* bytes are there returns what decoding the whole byte string returns.
C3_ProgressiveFeed ==
    /\ AtProperPrefix => res.err = "NotComplete"
    /\ (api = ApiOf(src) /\ pre = Wire(src)) => res = Called(DecodeBy(api, Wire(src)))

\* C4: on a buffer that starts with a complete frame, expect_length returns the
\* number of bytes by which a successful decode shortens the buffer.
C4_ExpectLengthAgrees ==
    (AtFrame /\ res.ok /\ need.api = api /\ need.on = pre) =>
        (need.ok /\ need.val = Len(pre) - Len(buf))

\* C5: a successful decode of the null bulk string (the null array) removes
\* exactly its five header bytes from the front of the buffer.
C5_NullConsumed ==
    (AtFrame /\ src \in {NullBulk, NullArr} /\ res.ok) =>
        buf = Drop(pre, Len(Wire(src)))

\* C6: decoding a complete non-null array of N elements returns exactly the N
\* frames sent, in order, and leaves the buffer at the first byte after the
\* N-th element.
C6_ArrayElements ==
    (AtFrame /\ src.kind = "array") =>
        /\ res.ok
        /\ res.val.type = "Array"
        /\ Len(res.val.frames) = Len(src.items)
        /\ \A i \in 1..Len(src.items) : res.val.frames[i] = ToValue(src.items[i])
        /\ buf = Drop(pre, Len(Wire(src)))

\* C7: a non-null bulk string holding payload p encodes to "$" + len(p) + CRLF
\* + p + CRLF whatever p is, and only the null bulk string encodes to "$-1\r\n".
C7_ExplicitNullTag ==
    (origin = "built" /\ out # NoBytes /\ frame.type = "BulkString") =>
        /\ src.kind = "bulk" =>
               out = <<"$">> \o Dec(Len(src.data)) \o CRLF \o src.data \o CRLF
        /\ out = <<"$", "-", "1", CR, LF>> => src.kind = "nullbulk"

\* C8: a non-null array of n elements encodes to "*" + n + CRLF followed by its
\* elements' encodings in order; a null array encodes to "*-1\r\n" and nothing
\* else, whatever elements the value holds.
C8_ArrayEncode ==
    (out # NoBytes /\ frame.type = "Array") =>
        out = IF frame.null THEN <<"*", "-", "1", CR, LF>>
              ELSE <<"*">> \o Dec(Len(frame.frames)) \o CRLF
                   \o ConcatAll([i \in 1..Len(frame.frames) |->
                                    RespFrame_encode(frame.frames[i])])

\* a non-null array of two or more elements, one of them a null array that
\* holds an element, has been encoded
C8_Witness ==
    /\ out # NoBytes
    /\ frame.type = "Array"
    /\ ~frame.null
    /\ Len(frame.frames) >= 2
    /\ \E i \in 1..Len(frame.frames) :
          /\ frame.frames[i].type = "Array"
          /\ frame.frames[i].null
          /\ frame.frames[i].frames # <<>>

RECURSIVE NullXorElements(_)
\* no array in value v is both null and holding elements
NullXorElements(v) ==
    v.type = "Array" =>
        /\ v.null => v.frames = <<>>
        /\ \A i \in 1..Len(v.frames) : NullXorElements(v.frames[i])

\* C9: an array produced by decode is the null array holding no elements, or a
\* non-null array holding exactly the elements its header declares.
C9_NullXorElements ==
    (api = "RespArray" /\ res.ok) =>
        /\ NullXorElements(res.val)
        /\ ~res.val.null => Len(res.val.frames) = parse_length(pre, "*").len

(***************************************************************************)
(* Properties of the command layer.                                        *)
(***************************************************************************)
\* the message of the echo request sent
EchoMessage == src.items[2].data

\* what one step does to an echo request: the four stages of the claim below
EchoStep ==
    src \in EchoRequests =>
        /\ AtFrame' => (res'.ok /\ res'.val = ToValue(src))
        /\ (frame = ToValue(src) /\ frame' = NoFrame) =>
               cmd' = [type |-> "Echo", msg |-> EchoMessage]
        /\ (cmd.type = "Echo" /\ cmd' = NoCmd) =>
               /\ cmd.msg = EchoMessage
               /\ frame' = BulkString_new(EchoMessage)
               /\ backend' = backend
        /\ (origin' = "reply" /\ out' # NoBytes) =>
               out' = <<"$">> \o Dec(Len(EchoMessage)) \o CRLF \o EchoMessage \o CRLF

\* C10: echo end to end: the request "*2\r\n$4\r\necho\r\n$<len(m)>\r\n<m>\r\n"
\* decodes and constructs to Echo{message: m}; executing it returns a bulk
\* string holding m and leaves the backend as it was; encoding that reply
\* gives "$<len(m)>\r\n<m>\r\n".
C10_EchoEndToEnd == [][EchoStep]_vars

\* a step that constructed an Echo from the request src
EchoConstructed ==
    (frame # NoFrame /\ frame' = NoFrame /\ cmd'.type = "Echo") =>
        /\ Len(src.items) = 2
        /\ src.items[2].kind = "bulk"

\* C11: constructing Echo from an array succeeds only when exactly one argument
\* follows the command name and that argument is a non-null bulk string; with
\* zero arguments, two or more, the null bulk string or a frame that is not a
\* bulk string, the result is an error and no Echo.
C11_EchoArguments == [][EchoConstructed]_vars

\* the first element of the request src is a bulk string spelling name in some case
Names(name) ==
    /\ src.items # <<>>
    /\ src.items[1].kind = "bulk"
    /\ lowercase(src.items[1].data) = name

\* what a constructor owes the name check: a command only under its own name,
\* WrongCommand under anything else
NameChecked(name, type) ==
    /\ cmd'.type = type => Names(name)
    /\ ~Names(name) => cmd' = CommandError("WrongCommand")

CommandNamed ==
    /\ TryFromEcho => NameChecked(ECHO, "Echo")
    /\ TryFromSAdd => NameChecked(SADD, "SAdd")
    /\ TryFromSismember => NameChecked(SISMEMBER, "Sismember")

\* C12: each of the three constructors (Echo, SAdd, Sismember) accepts an array
\* only when its first element is a bulk string whose lowercase text is the
\* command's own name; when the first element is missing, not a bulk string or
\* another command's name, construction fails with WrongCommand.
C12_CommandName == [][CommandNamed]_vars

\* the elements of the request src after its first
ArgsSent == Drop(src.items, 1)

\* the request has a key (a bulk string of text) and at least one member after it
KeyAndMember ==
    /\ Len(ArgsSent) >= 2
    /\ ArgsSent[1].kind = "bulk"
    /\ from_utf8(ArgsSent[1].data).ok

SAddConstructed ==
    TryFromSAdd =>
        IF KeyAndMember
        THEN cmd' = [type |-> "SAdd", key |-> ArgsSent[1].data,
                     members |-> [i \in 1..(Len(ArgsSent) - 1) |-> ToValue(ArgsSent[i + 1])]]
        ELSE cmd' = CommandError("InvalidArgument")

\* C13: constructing SAdd from any array always returns a value: the SAdd
\* command when the first argument is a bulk-string key followed by at least one
\* member, the InvalidArgument error otherwise (key missing, key not a bulk
\* string, no member after the key); construction never aborts the program.
C13_SAddAlwaysReturns == [][SAddConstructed]_vars

(***************************************************************************)
(* Properties of execution.                                                *)
(***************************************************************************)
\* the step is the execution of a command of this type
Executes(type) == cmd.type = type /\ cmd' = NoCmd

One == [type |-> "BulkString", data |-> <<"1">>]
Zero == [type |-> "BulkString", data |-> <<"0">>]

MembershipReply ==
    Executes("Sismember") =>
        frame' = IF <<cmd.key, cmd.value>> \in added THEN One ELSE Zero

\* C14: over any sequence of executed Echo, SAdd and Sismember commands that
\* starts from an empty backend, Sismember{key k, value m} returns the bulk
\* string "1" if and only if some earlier executed SAdd on key k had m as a
\* bulk-string member, and the bulk string "0" otherwise.
C14_Membership == [][MembershipReply]_vars

\* a Sismember has just answered "1" for a member an earlier SAdd brought, and
\* another member of the history is under a different key or text
C14_Witness ==
    /\ origin = "reply"
    /\ seen # <<>>
    /\ frame = seen[1].reply
    /\ frame = One
    /\ <<seen[1].key, seen[1].value>> \in added
    /\ Cardinality(added) >= 2

\* every text the model uses as a key or as a member
Texts == ExecKeys \cup ExecTexts

\* the membership observable through Sismember on backend b
Membership(b) ==
    {q \in Texts \X Texts :
        Sismember_execute([type |-> "Sismember", key |-> q[1], value |-> q[2]], b).reply = One}

\* the (key, text) pairs an SAdd names, each once
Named(c) == {q \in BulkMembers(c) : from_utf8(q[2]).ok}

RECURSIVE Dedup(_)
\* a sequence without the later occurrences of its elements
Dedup(ms) ==
    IF ms = <<>> THEN <<>>
    ELSE LET front == Dedup(SubSeq(ms, 1, Len(ms) - 1))
             last == ms[Len(ms)]
         IN  IF \E i \in 1..Len(front) : front[i] = last THEN front ELSE Append(front, last)

Idempotent ==
    /\ Executes("SAdd") =>
          \* members added by earlier commands: nothing changes
          /\ Named(cmd) \subseteq Membership(backend) => Membership(backend') = Membership(backend)
          \* a member repeated inside the command counts once
          /\ Membership(backend') =
                 Membership(SAdd_execute([cmd EXCEPT !.members = Dedup(@)], backend).backend)
          \* the same command once more changes nothing
          /\ Membership(SAdd_execute(cmd, backend').backend) = Membership(backend')
    /\ (/\ Executes("Sismember")
        \* the same question as the last one, no write since
        /\ seen # <<>>
        /\ seen[1].key = cmd.key
        /\ seen[1].value = cmd.value) => frame' = seen[1].reply

\* C15: idempotence: executing SAdd for key k with a member already in k's set
\* (repeated inside one command, or added by an earlier command) leaves the
\* membership observable through Sismember as it was after the first add; and
\* repeating the same Sismember with no write in between returns the same reply.
C15_Idempotence == [][Idempotent]_vars

\* an SAdd naming the same member twice has executed on a key that already
\* held that member and another one
C15_Witness ==
    /\ origin = "reply"
    /\ frame = RESP_OK
    /\ Len(src.items) = 4
    /\ src.items[3] = src.items[4]
    /\ src.items[3].kind = "bulk"
    /\ from_utf8(src.items[3].data).ok
    /\ <<src.items[2].data, src.items[3].data>> \in Membership(backend)
    /\ \E q \in Membership(backend) : q[1] = src.items[2].data /\ q[2] # src.items[3].data

\* the member of an SAdd that execute must pass over
Skipped(v) == v.type # "BulkString" \/ ~from_utf8(v.data).ok

SkipsSilently ==
    Executes("SAdd") =>
        /\ frame' = RESP_OK
        /\ DOMAIN backend' = DOMAIN backend \cup Named(cmd)
        /\ \A i \in 1..Len(cmd.members) :
               IF Skipped(cmd.members[i])
               THEN cmd.members[i].type = "BulkString" =>
                        (<<cmd.key, cmd.members[i].data>> \in DOMAIN backend' <=>
                         <<cmd.key, cmd.members[i].data>> \in DOMAIN backend)
               ELSE backend'[<<cmd.key, cmd.members[i].data>>] = cmd.members[i]

\* C17: SAdd::execute skips every member that is not a bulk string (or not
\* valid UTF-8 text) without error: such a member adds no field to the backend,
\* the other members of the same command are still added, and the reply is the
\* same fixed success frame whether zero, some or all members were inserted.
C17_SkipsSilently == [][SkipsSilently]_vars

\* an SAdd whose first member had to be skipped and whose second is text has
\* executed: the reply is the success frame and the second member is stored
C17_Witness ==
    /\ origin = "reply"
    /\ frame = RESP_OK
    /\ Len(src.items) = 4
    /\ src.items[1] = Bulk(SADD)
    /\ Skipped(ToValue(src.items[3]))
    /\ ~Skipped(ToValue(src.items[4]))
    /\ <<src.items[2].data, src.items[4].data>> \in DOMAIN backend

\* the fields of backend b that are not under key k
Elsewhere(b, k) == {p \in DOMAIN b : p[1] # k}

OnlyItsKey ==
    /\ Executes("SAdd") =>
          /\ Elsewhere(backend', cmd.key) = Elsewhere(backend, cmd.key)
          /\ \A p \in Elsewhere(backend, cmd.key) : backend'[p] = backend[p]
          /\ \A q \in Texts \X Texts :
                 q[1] # cmd.key => (q \in Membership(backend') <=> q \in Membership(backend))
    /\ Executes("Echo") => backend' = backend
    /\ Executes("Sismember") => backend' = backend

\* C18: executing SAdd on key k changes only the fields stored under k:
\* membership under every other key is the same before and after; executing
\* Echo or Sismember changes nothing in the backend.
C18_OnlyItsKey == [][OnlyItsKey]_vars

\* an SAdd on one key has executed while another key holds members
C18_Witness ==
    /\ origin = "reply"
    /\ frame = RESP_OK
    /\ src.items[1] = Bulk(SADD)
    /\ \E p \in DOMAIN backend : p[1] = src.items[2].data
    /\ Elsewhere(backend, src.items[2].data) # {}

(***************************************************************************)
(* Properties of concurrent execution.                                     *)
(***************************************************************************)
\* the members of the SAdd request src, as sent
MembersSent == Drop(src.items, 2)

\* member i of the request is a bulk string of text
TextMember(i) == MembersSent[i].kind = "bulk" /\ from_utf8(MembersSent[i].data).ok

PerMember ==
    \* one iteration inserts at most the one field of its member
    /\ pos' = pos + 1 =>
          LET field == IF MembersSent[pos'].kind = "bulk"
                       THEN {<<src.items[2].data, MembersSent[pos'].data>>}
                       ELSE {}
          IN  /\ DOMAIN backend' \ DOMAIN backend \subseteq field
              /\ DOMAIN backend \subseteq DOMAIN backend'
              /\ \A p \in DOMAIN backend \ field : backend'[p] = backend[p]
              /\ TextMember(pos') => field \subseteq DOMAIN backend'
    \* after the return every text member is reported "1"
    /\ origin' = "reply" =>
          /\ \A i \in 1..Len(MembersSent) :
                 TextMember(i) => <<src.items[2].data, MembersSent[i].data>> \in Membership(backend')
          /\ \A j \in 1..Len(seen') :
                 (/\ seen'[j].idle
                  /\ \E i \in 1..Len(MembersSent) :
                         TextMember(i) /\ MembersSent[i].data = seen'[j].value)
                 => seen'[j].reply = One

\* C16: with each hset and hget atomic, an SAdd of several members running
\* concurrently with Sismember commands is atomic per member but not as a
\* whole: some interleaving has a Sismember for an earlier member answer "1"
\* and then one for a later member answer "0"; once the SAdd has completed,
\* every one of its bulk-string members is reported "1".
C16_AtomicPerMember == [][PerMember]_vars

\* while the SAdd was executing, one connection was told "1" for an earlier
\* member and, after that, another was told "0" for a later member
C16_Witness ==
    /\ Len(seen) >= 2
    /\ ~seen[1].idle
    /\ ~seen[2].idle
    /\ seen[1].reply = One
    /\ seen[2].reply = Zero
    /\ \E e, l \in 1..Len(MembersSent) :
          /\ e < l
          /\ TextMember(e)
          /\ TextMember(l)
          /\ MembersSent[e].data = seen[1].value
          /\ MembersSent[l].data = seen[2].value

====
